---- MODULE Spec2Model ----
(***************************************************************************)
(* Model of keepassxc-unlock (src/systemd/keepassxc-unlock.c): the         *)
(* per-user monitor that unlocks the registered KeePassXC databases when   *)
(* the user's login session is unlocked or activated.                      *)
(*                                                                         *)
(* The program is single threaded.  `pc` is the position of that thread;   *)
(* unlock_databases() is entered from main() and from the property-change  *)
(* handler, `ret` remembers the caller.  The environment (logind, the      *)
(* user's session bus, the file system) acts between the program's steps.  *)
(***************************************************************************)
EXTENDS Integers, Sequences, FiniteSets, TLC

\* ------------------------------------------------------------------ bounds
MaxQueue   == 2   \* signals queued for the main loop at one time
MaxEntries == 2   \* entries of one PropertiesChanged dictionary
MaxRecords == 3   \* *.conf files matched by glob()
MdSize     == 1   \* bytes of a message digest (stands for EVP_MAX_MD_SIZE)
MaxSessions == 2  \* sessions in one reply to ListSessions
MaxNotified == 3  \* SessionNew signals logind emits

\* ------------------------------------------------------- program constants
MAX_PASSWORD_SIZE  == 4096
UnlockEventWait    == 10
ActiveEventWait    == 30
StartupWait        == 60
SelectAttempts     == 30
SHA512_BUFFER_SIZE == MdSize * 2 + 1

ROOT     == 0                  \* the administrative identity
UserIds  == {1000}             \* pw_uid of the monitored user
Pids     == {4242}             \* processes that may own the KeePassXC bus name
NoPid    == 0
MonPath  == "/session/_1"      \* path of the selected session
OtherPath == "/session/_2"

VARIABLES
  pc,                \* position of the program
  exit_code,         \* exit status once pc = "exited", else -1
  user_id,           \* main(): pwd->pw_uid
  euid,              \* effective user id of the process
  select_i,          \* main(): counter of the selection loop
  listed,            \* main(): some ListSessions call of the loop succeeded
  startup_calls,     \* main(): calls of unlock_databases made at line 462
  sessions,          \* select_session(): the reply to ListSessions
  session_selected,  \* select_session(): the value returned
  session_subscription_id, login_subscription_id, \* main(): 0 = none
  loop_running,      \* GMainLoop is_running flag
  quit_called,       \* g_main_loop_quit() has been called by handle_session_end
  queue,             \* signals delivered to the process, not yet dispatched
  batch_left,        \* sources still to dispatch in this loop iteration
  session_locked, session_active,   \* session_loop_data
  entries,           \* handle_session_event(): entries not yet iterated
  ret,               \* caller of unlock_databases
  wait_secs, poll_i, kp_pid,        \* unlock_databases(): discovery loop
  rec_n, rec_i, decrypted_len,      \* unlock_databases(): record loop
  dec_exit,          \* exit status of the record's decryption, -1 = not run
  session_conn,      \* unlock_databases(): the record's session bus connection
  outcomes,          \* how each record attempted by this invocation ended
  result,            \* how the running invocation ended, "none" while running
  chk,               \* what the integrity check was given in this invocation
  alert,             \* desktop alert sent by this invocation
  op,                \* the external operation the last step performed
  LockedHint,        \* the session's LockedHint property at logind
  scenStep, scenCalls, \* observer of the false, true, false lock-hint sequence
  event_calls,       \* callers of unlock_databases within the running handler
  removed,           \* logind has removed the selected session
  lm_pc,             \* login-monitor: position in main()
  lm_exit_code,      \* login-monitor: value returned from main(), -1 while running
  new_sessions,      \* login-monitor: SessionNew signals not yet dispatched
  notified,          \* login-monitor: number of SessionNew signals emitted
  hns,               \* login-monitor: frame of handle_new_session
  session_env,       \* content of KP_CONFIG_DIR/<uid>/session.env per user
  requests,          \* "systemctl start" commands run, in order
  workers            \* instances of keepassxc-unlock@.service that are started

env_vars  == <<LockedHint, queue>>
main_vars == <<exit_code, user_id, select_i, session_subscription_id,
               login_subscription_id, loop_running, quit_called, batch_left>>
data_vars == <<session_locked, session_active, entries>>
ud_vars   == <<ret, wait_secs, poll_i, kp_pid, rec_n, rec_i, decrypted_len,
               dec_exit, session_conn, outcomes, result, chk, alert>>
sel_vars  == <<listed, startup_calls, sessions, session_selected>>
obs_vars  == <<scenStep, scenCalls>>
login_vars == <<lm_pc, lm_exit_code, new_sessions, notified, hns, session_env,
                requests, workers>>
aux_vars  == <<event_calls, removed, login_vars>>
vars == <<pc, euid, op, env_vars, main_vars, sel_vars, data_vars, ud_vars,
          obs_vars, aux_vars>>

NoOp    == [name |-> "none", euid |-> ROOT, to |-> NoPid]
NoChk   == [baseline |-> "none", hashed |-> FALSE, equal |-> FALSE]
NoAlert == [pid |-> NoPid, exe |-> "none"]
\* the record of the outcomes of the records: NoLog when none is kept
NoLog   == <<"not recorded">>
Logged(log, outcome) == IF log = NoLog THEN NoLog ELSE Append(log, outcome)

\* ------------------------------------------------------------ pure helpers

\* change_euid(): `cur` is geteuid(), `ok` the outcome of seteuid().
\* Yields the new effective id and whether exit(1) was taken.
\* (as if the switch back to root were left out)
change_euid_no_restore(cur, uid, ok) ==
  IF cur = uid \/ uid = ROOT THEN [euid |-> cur, exit |-> FALSE]
  ELSE IF ok THEN [euid |-> uid, exit |-> FALSE]
  ELSE [euid |-> cur, exit |-> FALSE]

\* (as if a failed switch back to root were only logged)
change_euid_no_exit(cur, uid, ok) ==
  IF cur = uid THEN [euid |-> cur, exit |-> FALSE]
  ELSE IF ok THEN [euid |-> uid, exit |-> FALSE]
  ELSE [euid |-> cur, exit |-> FALSE]

change_euid(cur, uid, ok) ==
  IF cur = uid THEN [euid |-> cur, exit |-> FALSE]
  ELSE IF ok THEN [euid |-> uid, exit |-> FALSE]
  ELSE [euid |-> cur, exit |-> (uid = ROOT)]

\* is_locked(): `reply` is the answer to Properties.Get, "error" when the
\* call fails.
\* (as if a failed read counted as unlocked)
is_locked_fail_open(reply) ==
  IF reply = "error" THEN FALSE ELSE reply = "true"

is_locked(reply) ==
  IF reply = "error" THEN TRUE ELSE reply = "true"

\* handle_session_event(): the two trigger conditions
\* (as if the previous lock state were not consulted)
LockedHintTriggers_any_unlocked(locked, rec_locked) == ~locked

LockedHintTriggers(locked, rec_locked) == ~locked /\ rec_locked

\* (as if the lock state were not consulted)
ActiveTriggers_ignore_lock(active, rec_active, rec_locked) ==
  active /\ ~rec_active

ActiveTriggers(active, rec_active, rec_locked) ==
  active /\ ~rec_active /\ ~rec_locked

\* lines 379 and 386: the recorded state after an entry `key` carrying
\* `value` has been handled, `old` being the recorded value before
\* (as if the entry were not recorded)
record_locked_stale(key, value, old) == old

record_locked(key, value, old) == IF key = "LockedHint" THEN value ELSE old

record_active(key, value, old) == IF key = "Active" THEN value ELSE old

\* --------------------------------------------------------- signal contents

\* One entry of the a{sv} dictionary of PropertiesChanged.  "IdleHint" stands
\* for every property the handler does not look at.
Entry(k, v) == [key |-> k, value |-> v]
EntryValues ==
  {Entry(k, v) : k \in {"LockedHint", "Active"}, v \in BOOLEAN}
    \cup {Entry("IdleHint", FALSE)}

RECURSIVE SeqsUpTo(_, _)
SeqsUpTo(S, n) ==
  IF n = 0 THEN {<<>>}
  ELSE LET shorter == SeqsUpTo(S, n - 1)
       IN shorter \cup {Append(q, x) : q \in shorter, x \in S}

DistinctKeys(d) ==
  \A i, j \in 1..Len(d) : i # j => d[i].key # d[j].key

\* the dictionaries a PropertiesChanged signal may carry, in wire order
Dicts == {d \in SeqsUpTo(EntryValues, MaxEntries) : Len(d) > 0 /\ DistinctKeys(d)}

\* the sessions a SessionRemoved signal may name
RemovedPaths == {MonPath, OtherPath}

\* the lock-hint sequence of the scenario: false, true, false
Scenario == <<FALSE, TRUE, FALSE>>

\* ---------------------------------------------------- integrity verifier

NL == "\n"
HexDigits == <<"0", "1", "2", "3", "4", "5", "6", "7",
               "8", "9", "a", "b", "c", "d", "e", "f">>
ByteVals == {10, 171}

\* sprintf("%02x", byte)
HexByte(b) == <<HexDigits[(b \div 16) + 1], HexDigits[(b % 16) + 1]>>

\* the digests EVP_DigestFinal_ex can yield: MdSize bytes
Digests == {d \in SeqsUpTo(ByteVals, MdSize) : Len(d) = MdSize}

\* the conversion loop of sha512sum(): <<>> stands for the return value 0
RECURSIVE sha512hex(_, _, _, _)
sha512hex(hash, i, buf, buffer_size) ==
  IF i > Len(hash) THEN buf
  ELSE IF Len(buf) >= buffer_size - 2 THEN <<>>
  ELSE sha512hex(hash, i + 1, buf \o HexByte(hash[i]), buffer_size)

\* sha512sum(): `exe` is the file, [readable, digest]; yields the hex string
\* left in hash_buffer, of length 0 on failure
sha512sum(exe, buffer_size) ==
  IF ~exe.readable THEN <<>>
  ELSE sha512hex(exe.digest, 1, <<>>, buffer_size)

\* fgets(buf, size, file): at most size - 1 characters, through the first
\* newline; FgetsNull is the NULL result (nothing read, or a read error)
RECURSIVE TakeLine(_, _)
TakeLine(text, n) ==
  IF n = 0 \/ text = <<>> THEN <<>>
  ELSE IF Head(text) = NL THEN <<NL>>
  ELSE <<Head(text)>> \o TakeLine(Tail(text), n - 1)

FgetsNull(file, size) == file.state # "ok" \/ TakeLine(file.text, size - 1) = <<>>
fgets(file, size) == TakeLine(file.text, size - 1)

\* strcspn(s, "\n"): length of the prefix of s without a newline
RECURSIVE strcspn_nl(_)
strcspn_nl(s) ==
  IF s = <<>> \/ Head(s) = NL THEN 0 ELSE 1 + strcspn_nl(Tail(s))

\* lines 231-236 of unlock_databases(): the value of `mismatch`
\* (as if the recorded checksum were never compared)
mismatch_hash_only(file, exe) == Len(sha512sum(exe, SHA512_BUFFER_SIZE)) = 0

\* (as if the comparison stopped at the end of the recorded line)
mismatch_prefix(file, exe) ==
  LET current == sha512sum(exe, SHA512_BUFFER_SIZE)
      line    == fgets(file, SHA512_BUFFER_SIZE)
      expected == SubSeq(line, 1, strcspn_nl(line))
  IN Len(current) = 0
     \/ FgetsNull(file, SHA512_BUFFER_SIZE)
     \/ SubSeq(current, 1, Len(expected)) # expected

mismatch(file, exe) ==
  LET current == sha512sum(exe, SHA512_BUFFER_SIZE)
      line    == fgets(file, SHA512_BUFFER_SIZE)
      expected == SubSeq(line, 1, strcspn_nl(line))
  IN Len(current) = 0
     \/ FgetsNull(file, SHA512_BUFFER_SIZE)
     \/ current # expected

\* The inputs of the check.  The baseline is the single-line digest file
\* written by the setup tool: a line of at most a digest's length, with or
\* without its terminator, possibly followed by more text; or it is missing
\* or cannot be read.  The executable is /proc/<pid>/exe.
BaselineLines ==
  LET full == {sha512hex(d, 1, <<>>, SHA512_BUFFER_SIZE) : d \in Digests}
  IN full \cup {SubSeq(h, 1, Len(h) - 1) : h \in full} \cup {<<>>}
BaselineTexts ==
  {l \o t : l \in BaselineLines, t \in {<<>>, <<NL>>, <<NL, "0">>}}
Baselines ==
  {[state |-> "ok", text |-> t] : t \in BaselineTexts}
    \cup {[state |-> s, text |-> <<>>] : s \in {"missing", "unreadable"}}
Exes ==
  {[readable |-> TRUE, digest |-> d] : d \in Digests}
    \cup {[readable |-> FALSE, digest |-> <<>>]}

\* what the check was given, in the words of the specification: the first
\* line of the baseline without its terminator, and the digest in hex
FirstLine(text) ==
  LET nls == {i \in 1..Len(text) : text[i] = NL}
  IN IF nls = {} THEN text
     ELSE SubSeq(text, 1, (CHOOSE i \in nls : \A j \in nls : i <= j) - 1)
RECURSIVE HexOf(_)
HexOf(bytes) ==
  IF Len(bytes) = 0 THEN <<>> ELSE HexByte(bytes[1]) \o HexOf(Tail(bytes))
Given(file, exe) ==
  [baseline |-> IF file.state = "ok" THEN "present" ELSE file.state,
   hashed   |-> exe.readable,
   equal    |-> file.state = "ok" /\ exe.readable
                  /\ FirstLine(file.text) = HexOf(exe.digest)]

\* ------------------------------------------------------- session selector

\* One element of the reply to ListSessions, with the properties of the
\* session that the validity check reads.  The path of a session stands for
\* its place in the reply.
SessionPaths == <<MonPath, OtherPath, "/session/_3", "/session/_4">>
SessionProps ==
  [uid : UserIds \cup {1001}, type : {"x11", "wayland", "tty"},
   remote : BOOLEAN, active : BOOLEAN]
Listed(props) ==
  [i \in 1..Len(props) |->
     [uid |-> props[i].uid, type |-> props[i].type, remote |-> props[i].remote,
      active |-> props[i].active, path |-> SessionPaths[i]]]

\* the replies to ListSessions: a list of sessions, or the call fails
ListSessionsReplies ==
  {[ok |-> TRUE, list |-> Listed(p)] : p \in SeqsUpTo(SessionProps, MaxSessions)}
    \cup {[ok |-> FALSE, list |-> <<>>]}
NoReply    == [ok |-> FALSE, list |-> <<"none">>]
NoSession  == "NULL"
NotCalled  == "not called"

\* session_valid_for_unlock(): Type is x11 or wayland, Remote is false,
\* Active is true
session_valid_for_unlock(s) ==
  s.type \in {"x11", "wayland"} /\ ~s.remote /\ s.active

\* the loop of select_session() from element i of the list
\* (as if the loop went on after a match)
RECURSIVE select_loop_last(_, _, _)
select_loop_last(list, i, uid) ==
  IF i > Len(list) THEN NoSession
  ELSE LET rest == select_loop_last(list, i + 1, uid)
       IN IF list[i].uid = uid /\ session_valid_for_unlock(list[i])
             /\ rest = NoSession
          THEN list[i].path
          ELSE rest

RECURSIVE select_loop(_, _, _)
select_loop(list, i, uid) ==
  IF i > Len(list) THEN NoSession
  ELSE IF uid # list[i].uid THEN select_loop(list, i + 1, uid)
  ELSE IF session_valid_for_unlock(list[i]) THEN list[i].path
  ELSE select_loop(list, i + 1, uid)

\* select_session(): NoSession stands for the NULL result
select_session(reply, uid) ==
  IF ~reply.ok THEN NoSession ELSE select_loop(reply.list, 1, uid)

\* ------------------------------------------------------------------ state

\* ---------------------------------------------------------------------------
\* login-monitor.c: state of the login monitor
\* ---------------------------------------------------------------------------

\* the sessions logind announces, and the owner session_valid_for_unlock()
\* reports for each: two sessions of one user, one of another
LoginUsers   == {1000, 1001}
SessionOwner == [p \in {MonPath, OtherPath} |-> 1000] @@ ("/session/_3" :> 1001)
NewPaths     == DOMAIN SessionOwner

\* session.env: not there, opened with "w" and nothing in it, or the line
\* "SESSION_PATH=<path>\n" (kept as the path)
NoFile    == "ENOENT"
EmptyFile == ""

\* no call of handle_new_session yet
NoCall == [pc |-> "none", session_path |-> NoSession, user_id |-> ROOT,
           valid |-> FALSE, has_configs |-> FALSE, opened |-> FALSE,
           requested |-> FALSE]

InitLoginMonitor ==
  /\ lm_pc = "main"
  /\ lm_exit_code = -1
  /\ new_sessions = <<>>
  /\ notified = 0
  /\ hns = NoCall
  /\ session_env = [u \in LoginUsers |-> NoFile]
  /\ requests = <<>>
  /\ workers = {}

InitProgram ==
  /\ pc = "main"
  /\ exit_code = -1
  /\ user_id = ROOT
  /\ euid \in {ROOT, 1000}
  /\ select_i = 0
  /\ listed = FALSE
  /\ startup_calls = 0
  /\ sessions = NoReply
  /\ session_selected = NotCalled
  /\ session_subscription_id = 0
  /\ login_subscription_id = 0
  /\ loop_running = FALSE
  /\ quit_called = FALSE
  /\ queue = <<>>
  /\ batch_left = 0
  /\ session_locked = FALSE
  /\ session_active = FALSE
  /\ entries = <<>>
  /\ ret = "none"
  /\ wait_secs = 0
  /\ poll_i = 0
  /\ kp_pid = NoPid
  /\ rec_n = 0
  /\ rec_i = 0
  /\ decrypted_len = 0
  /\ dec_exit = -1
  /\ session_conn = "none"
  /\ result = "none"
  /\ chk = NoChk
  /\ alert = NoAlert
  /\ op = NoOp
  /\ LockedHint \in BOOLEAN
  /\ removed = FALSE
  /\ InitLoginMonitor

\* the observer of the scenario is off, no record of the outcomes is kept
Init ==
  /\ InitProgram
  /\ scenStep = -1 /\ scenCalls = 0 /\ outcomes = NoLog /\ event_calls = NoLog

\* the observer of the scenario is on
InitObserved ==
  /\ InitProgram
  /\ scenStep = 0 /\ scenCalls = 0 /\ outcomes = NoLog /\ event_calls = NoLog

\* the callers of unlock_databases are recorded per handler
InitEvents ==
  /\ InitProgram
  /\ scenStep = -1 /\ scenCalls = 0 /\ outcomes = NoLog /\ event_calls = <<>>

\* select_session() is about to be called in main() and the session manager
\* has some reply to ListSessions ready
InitSelect ==
  /\ pc = "select"
  /\ exit_code = -1
  /\ user_id \in UserIds
  /\ euid = ROOT
  /\ select_i = 0
  /\ listed = FALSE
  /\ startup_calls = 0
  /\ sessions \in ListSessionsReplies
  /\ session_selected = NotCalled
  /\ session_subscription_id = 0
  /\ login_subscription_id = 0
  /\ loop_running = FALSE
  /\ quit_called = FALSE
  /\ queue = <<>>
  /\ batch_left = 0
  /\ session_locked = FALSE
  /\ session_active = FALSE
  /\ entries = <<>>
  /\ ret = "none"
  /\ wait_secs = 0
  /\ poll_i = 0
  /\ kp_pid = NoPid
  /\ rec_n = 0
  /\ rec_i = 0
  /\ decrypted_len = 0
  /\ dec_exit = -1
  /\ session_conn = "none"
  /\ outcomes = NoLog
  /\ result = "none"
  /\ chk = NoChk
  /\ alert = NoAlert
  /\ op = NoOp
  /\ LockedHint \in BOOLEAN
  /\ scenStep = -1
  /\ scenCalls = 0
  /\ event_calls = NoLog
  /\ removed = FALSE
  /\ InitLoginMonitor

\* the outcomes of the records are recorded
InitRecords ==
  /\ InitProgram
  /\ scenStep = -1 /\ scenCalls = 0 /\ outcomes = <<>> /\ event_calls = NoLog

\* exit(code) or return code from main()
Exit(code) ==
  /\ pc' = "exited"
  /\ exit_code' = code

\* entering unlock_databases(user_id, conn, session_path, secs) from `caller`
Call_unlock_databases(caller, secs) ==
  /\ pc' = "ud_entry"
  /\ ret' = caller
  /\ wait_secs' = secs
  /\ UNCHANGED <<poll_i, kp_pid, rec_n, rec_i, decrypted_len, dec_exit,
                 session_conn, outcomes, result, chk, alert>>

\* ------------------------------------------------------------------- main

\* main(), up to the system bus connection
main_setup ==
  /\ pc = "main"
  /\ op' = NoOp
  /\ \E argc_ok, pwd_ok, has_configs, bus_ok \in BOOLEAN, uid \in UserIds :
       IF ~argc_ok \/ euid # ROOT \/ ~pwd_ok
       THEN Exit(1) /\ UNCHANGED <<user_id, select_i>>
       ELSE IF ~has_configs
       THEN Exit(0) /\ user_id' = uid /\ UNCHANGED select_i
       ELSE IF ~bus_ok
       THEN Exit(1) /\ user_id' = uid /\ UNCHANGED select_i
       ELSE /\ pc' = "select"
            /\ user_id' = uid
            /\ select_i' = 0
            /\ UNCHANGED exit_code
  /\ UNCHANGED <<euid, env_vars, session_subscription_id, login_subscription_id,
                 loop_running, quit_called, batch_left, data_vars, ud_vars,
                 obs_vars, aux_vars, sel_vars>>

\* line 449: the condition of the selection loop, for round i
\* (as if one more round were allowed)
select_again_once_more(i) == i <= SelectAttempts

select_again(i) == i < SelectAttempts

\* main(): one round of the selection loop, and the call of line 462 when
\* select_session() returned a path
main_select ==
  /\ pc = "select"
  /\ op' = NoOp
  /\ \E reply \in ListSessionsReplies :
       IF select_session(reply, user_id) # NoSession
       THEN /\ Call_unlock_databases("startup", StartupWait)
            /\ startup_calls' = startup_calls + 1
            /\ select_i' = 0
            /\ listed' = TRUE
            /\ UNCHANGED exit_code
       ELSE IF select_again(select_i + 1)
       THEN /\ select_i' = select_i + 1
            /\ listed' = (listed \/ reply.ok)
            /\ UNCHANGED <<pc, exit_code, startup_calls, ud_vars>>
       ELSE /\ Exit(0)
            /\ select_i' = 0
            /\ listed' = (listed \/ reply.ok)
            /\ UNCHANGED <<startup_calls, ud_vars>>
  /\ UNCHANGED <<euid, env_vars, user_id, session_subscription_id,
                 login_subscription_id, loop_running, quit_called, batch_left,
                 data_vars, obs_vars, aux_vars, sessions, session_selected>>

\* select_session() applied to the reply held in `sessions`
select_session_call ==
  /\ pc = "select"
  /\ session_selected = NotCalled
  /\ sessions # NoReply
  /\ session_selected' = select_session(sessions, user_id)
  /\ UNCHANGED <<pc, euid, op, env_vars, main_vars, data_vars, ud_vars,
                 obs_vars, aux_vars, listed, startup_calls, sessions>>

\* main(): user_data is initialised and PropertiesChanged is subscribed
main_subscribe_session ==
  /\ pc = "subscribe_session"
  /\ op' = NoOp
  /\ session_locked' = FALSE
  /\ session_active' = TRUE
  /\ \E id \in {0, 1} :
       /\ session_subscription_id' = id
       /\ IF id # 0
          THEN pc' = "subscribe_login" /\ UNCHANGED exit_code
          ELSE Exit(1)
  /\ UNCHANGED <<euid, env_vars, user_id, select_i, login_subscription_id,
                 loop_running, quit_called, batch_left, entries, ud_vars,
                 obs_vars, aux_vars, sel_vars>>

\* main(): SessionRemoved is subscribed and g_main_loop_run() is entered
main_subscribe_login ==
  /\ pc = "subscribe_login"
  /\ op' = NoOp
  /\ \E id \in {0, 1} :
       /\ IF id # 0
          THEN /\ pc' = "main_loop"
               /\ login_subscription_id' = id
               /\ loop_running' = TRUE
               /\ UNCHANGED <<exit_code, session_subscription_id>>
          ELSE /\ Exit(1)
               /\ session_subscription_id' = 0
               /\ UNCHANGED <<login_subscription_id, loop_running>>
  /\ UNCHANGED <<euid, env_vars, user_id, select_i, quit_called, batch_left,
                 data_vars, ud_vars, obs_vars, aux_vars, sel_vars>>

\* g_main_loop_run(): between two iterations of the context.  The loop
\* leaves when is_running is false; otherwise an iteration takes every
\* source that is ready and dispatches all of them.
main_loop_iterate ==
  /\ pc = "main_loop"
  /\ op' = NoOp
  /\ IF ~loop_running
     THEN /\ Exit(0)
          /\ session_subscription_id' = 0
          /\ login_subscription_id' = 0
          /\ UNCHANGED batch_left
     ELSE /\ queue # <<>>
          /\ pc' = "dispatch"
          /\ batch_left' = Len(queue)
          /\ UNCHANGED <<exit_code, session_subscription_id,
                         login_subscription_id>>
  /\ UNCHANGED <<euid, env_vars, user_id, select_i, loop_running, quit_called,
                 data_vars, ud_vars, obs_vars, aux_vars, sel_vars>>

\* --------------------------------------------------------------- handlers

\* the observer of the scenario: it follows the LockedHint entries handled
\* since monitoring started and counts the invocations they trigger, until
\* the sequence is complete or broken
ScenNext(e, triggered) ==
  IF scenStep = -1 \/ scenStep = Len(Scenario) \/ e.key = "IdleHint"
  THEN <<scenStep, scenCalls>>
  ELSE IF e.key = "LockedHint" /\ e.value = Scenario[scenStep + 1]
  THEN <<scenStep + 1, scenCalls + (IF triggered THEN 1 ELSE 0)>>
  ELSE <<-1, 0>>

\* handle_session_end(): SessionRemoved, `path` is the removed session
handle_session_end(path) ==
  /\ IF path = MonPath
     THEN loop_running' = FALSE /\ quit_called' = TRUE
     ELSE UNCHANGED <<loop_running, quit_called>>
  /\ UNCHANGED <<pc, data_vars>>

\* g_main_loop_run(): the ready sources of one priority are dispatched in
\* the order in which they were attached, that is the order of arrival
\* (as if the newest signal were taken first)
next_source_newest(q) == q[Len(q)]

next_source(q) == Head(q)

\* the main context dispatches the next source of the iteration: the
\* callback of the signal at the head of the queue is called.  The
\* parameters of the signal are unpacked here (lines 371, 397): the
\* dictionary of PropertiesChanged, the path of SessionRemoved.
main_loop_dispatch ==
  /\ pc = "dispatch"
  /\ op' = NoOp
  /\ IF batch_left = 0
     THEN /\ pc' = "main_loop"
          /\ UNCHANGED <<queue, batch_left, data_vars, loop_running, quit_called>>
     ELSE /\ queue' = Tail(queue)
          /\ batch_left' = batch_left - 1
          /\ IF next_source(queue) = "SessionRemoved"
             THEN \E path \in (IF removed THEN {MonPath} ELSE RemovedPaths) :
                    handle_session_end(path)
             ELSE /\ \E d \in Dicts : entries' = d
                  /\ pc' = "handle_session_event"
                  /\ UNCHANGED <<session_locked, session_active, loop_running,
                                 quit_called>>
  /\ UNCHANGED <<euid, LockedHint, exit_code, user_id, select_i,
                 session_subscription_id, login_subscription_id, ud_vars,
                 obs_vars, aux_vars, sel_vars>>

\* handle_session_event(): one round of the loop over the entries
handle_session_event ==
  /\ pc = "handle_session_event"
  /\ op' = NoOp
  /\ IF entries = <<>>
     THEN /\ pc' = "dispatch"
          /\ event_calls' = IF event_calls = NoLog THEN NoLog ELSE <<>>
          /\ UNCHANGED <<data_vars, ud_vars, obs_vars, sel_vars, removed, login_vars>>
     ELSE LET e == Head(entries)
              trig == \/ /\ e.key = "LockedHint"
                         /\ LockedHintTriggers(e.value, session_locked)
                      \/ /\ e.key = "Active"
                         /\ ActiveTriggers(e.value, session_active, session_locked)
          IN /\ scenStep' = ScenNext(e, trig)[1]
             /\ scenCalls' = ScenNext(e, trig)[2]
             /\ IF trig
                THEN /\ Call_unlock_databases(e.key,
                          IF e.key = "LockedHint" THEN UnlockEventWait
                                                  ELSE ActiveEventWait)
                     /\ event_calls' = Logged(event_calls, e.key)
                     /\ UNCHANGED <<data_vars, removed, login_vars>>
                ELSE /\ session_locked' =
                          record_locked(e.key, e.value, session_locked)
                     /\ session_active' =
                          record_active(e.key, e.value, session_active)
                     /\ entries' = Tail(entries)
                     /\ UNCHANGED <<pc, ud_vars, event_calls, removed, login_vars>>
  /\ UNCHANGED <<euid, env_vars, main_vars, sel_vars>>

\* unlock_databases() returns to its caller: main() goes on to subscribe,
\* the handler records the carried value (lines 379, 386) and iterates
unlock_databases_return ==
  /\ pc = "ud_return"
  /\ op' = NoOp
  /\ IF ret = "startup"
     THEN /\ pc' = "subscribe_session"
          /\ UNCHANGED data_vars
     ELSE /\ pc' = "handle_session_event"
          /\ session_locked' =
               record_locked(ret, Head(entries).value, session_locked)
          /\ session_active' =
               record_active(ret, Head(entries).value, session_active)
          /\ entries' = Tail(entries)
  /\ ret' = "none"
  /\ wait_secs' = 0
  /\ poll_i' = 0
  /\ kp_pid' = NoPid
  /\ rec_n' = 0
  /\ rec_i' = 0
  /\ dec_exit' = -1
  /\ outcomes' = IF outcomes = NoLog THEN NoLog ELSE <<>>
  /\ result' = "none"
  /\ chk' = NoChk
  /\ alert' = NoAlert
  /\ UNCHANGED <<euid, decrypted_len, session_conn, env_vars, main_vars,
                 obs_vars, aux_vars, sel_vars>>

\* ------------------------------------------------------- unlock_databases

\* an operation on the outside world and the identity it ran under
Op(n, id) == [name |-> n, euid |-> id, to |-> NoPid]
\* a call on the session bus, delivered to process `pid`
OpTo(n, id, pid) == [name |-> n, euid |-> id, to |-> pid]

\* change_euid() from inside unlock_databases(): the new identity, or exit(1)
ChangeEuid(uid, ok, then) ==
  LET r == change_euid(euid, uid, ok)
  IN /\ euid' = r.euid
     /\ IF r.exit THEN pc' = "exited" ELSE pc' = then

\* line 205: the condition of the discovery loop, for round i of `secs`
\* (as if one more round were allowed)
poll_again_once_more(i, secs) == i <= secs

poll_again(i, secs) == i < secs

\* lines 190-194, 204-205: the last minute check of LockedHint, then the
\* discovery loop is entered
unlock_databases_is_locked ==
  /\ pc = "ud_entry"
  /\ \E reply \in {IF LockedHint THEN "true" ELSE "false", "error"} :
       /\ IF is_locked(reply)
          THEN pc' = "ud_return" /\ result' = "Locked"
          ELSE IF poll_again(0, wait_secs)
          THEN pc' = "ud_poll" /\ UNCHANGED result
          ELSE pc' = "ud_return" /\ result' = "ServiceUnavailable"
       /\ op' = Op(IF reply = "error" THEN "Get LockedHint failed"
                                      ELSE "Get LockedHint", euid)
  /\ poll_i' = 0
  /\ kp_pid' = NoPid
  /\ UNCHANGED <<euid, env_vars, main_vars, data_vars, obs_vars, aux_vars, sel_vars, ret,
                 wait_secs,
                 rec_n, rec_i, decrypted_len, dec_exit, session_conn, outcomes,
                 chk, alert>>

\* lines 207-209: switch to the user and ask the session bus for the
\* process that owns the KeePassXC name
unlock_databases_probe ==
  /\ pc = "ud_poll"
  /\ \E ok \in BOOLEAN, pid \in {NoPid} \cup Pids :
       /\ ChangeEuid(user_id, ok, "ud_poll_restore")
       /\ kp_pid' = IF pc' = "exited" THEN kp_pid ELSE pid
  /\ op' = IF pc' = "exited" THEN Op("exit", euid')
            ELSE Op("GetConnectionUnixProcessID", euid')
  /\ exit_code' = IF pc' = "exited" THEN 1 ELSE exit_code
  /\ UNCHANGED <<env_vars, user_id, select_i, session_subscription_id,
                 login_subscription_id, loop_running, quit_called, batch_left,
                 data_vars, obs_vars, aux_vars, sel_vars, ret, wait_secs, poll_i, rec_n,
                 rec_i,
                 decrypted_len, dec_exit, session_conn, outcomes, result, chk,
                 alert>>

\* lines 210-211: back to root, leave the loop when a process was found
unlock_databases_probe_restore ==
  /\ pc = "ud_poll_restore"
  /\ \E ok \in BOOLEAN :
       ChangeEuid(ROOT, ok, IF kp_pid # NoPid THEN "ud_verify" ELSE "ud_sleep")
  /\ op' = IF pc' = "exited" THEN Op("exit", euid') ELSE Op("seteuid", euid')
  /\ poll_i' = IF pc' = "ud_verify" THEN 0 ELSE poll_i
  /\ exit_code' = IF pc' = "exited" THEN 1 ELSE exit_code
  /\ UNCHANGED <<env_vars, user_id, select_i, session_subscription_id,
                 login_subscription_id, loop_running, quit_called, batch_left,
                 data_vars, obs_vars, aux_vars, sel_vars, ret, wait_secs, kp_pid, rec_n,
                 rec_i,
                 decrypted_len, dec_exit, session_conn, outcomes, result, chk,
                 alert>>

\* lines 212, 205, 214-217: sleep(1), next round or give up
unlock_databases_sleep ==
  /\ pc = "ud_sleep"
  /\ op' = Op("sleep", euid)
  /\ IF poll_again(poll_i + 1, wait_secs)
     THEN pc' = "ud_poll" /\ poll_i' = poll_i + 1 /\ UNCHANGED result
     ELSE pc' = "ud_return" /\ poll_i' = 0 /\ result' = "ServiceUnavailable"
  /\ UNCHANGED <<euid, env_vars, main_vars, data_vars, obs_vars, aux_vars, sel_vars, ret,
                 wait_secs,
                 kp_pid, rec_n, rec_i, decrypted_len, dec_exit, session_conn,
                 outcomes, chk, alert>>

\* lines 221-268: the checksum of /proc/<pid>/exe against the recorded one,
\* the desktop notification on a mismatch, else glob() of the *.conf files
\* (`n` files; 0 stands for a glob() that does not return 0)
unlock_databases_verify ==
  /\ pc = "ud_verify"
  /\ \E file \in Baselines, exe \in Exes :
       /\ chk' = Given(file, exe)
       /\ IF file.state = "missing"
          THEN /\ pc' = "ud_return"
               /\ result' = "IntegrityFailure"
               /\ op' = Op("fopen", euid)
               /\ UNCHANGED <<alert, rec_n>>
          ELSE IF mismatch(file, exe)
          THEN /\ pc' = "ud_return"
               /\ result' = "IntegrityFailure"
               /\ op' = Op("notify-send", euid)
               /\ \E resolved \in BOOLEAN :
                    alert' = [pid |-> kp_pid,
                              exe |-> IF resolved THEN "resolved"
                                                  ELSE "/proc/pid/exe"]
               /\ UNCHANGED rec_n
          ELSE \E n \in 0..MaxRecords :
               /\ pc' = IF n > 0 THEN "ud_rec_head" ELSE "ud_return"
               /\ result' = IF n > 0 THEN result ELSE "Done"
               /\ op' = Op("glob", euid)
               /\ rec_n' = n
               /\ UNCHANGED alert
  /\ rec_i' = 0
  /\ UNCHANGED <<euid, env_vars, main_vars, data_vars, obs_vars, aux_vars, sel_vars, ret,
                 wait_secs,
                 poll_i, kp_pid, decrypted_len, dec_exit, session_conn, outcomes>>

\* memset(decrypted_passwd, 0, MAX_PASSWORD_SIZE): the length of the
\* plaintext left in the buffer
\* (as if the buffer were not cleared)
memset_none(len) == len

memset(len) == 0

\* `continue` in the loop over the records: the index of the next record
\* after record i of n has failed
\* (as if a failure ended the loop)
after_failure_break(i, n) == n

after_failure(i, n) == i + 1

\* how the processing of one record can end
Outcomes == {"config unreadable", "decryption failed", "oversized",
             "bus unreachable", "rejected", "unlocked"}

\* line 270: the loop condition, with its memset()
unlock_databases_rec_head ==
  /\ pc = "ud_rec_head"
  /\ op' = Op("memset", euid)
  /\ decrypted_len' = memset(decrypted_len)
  /\ dec_exit' = -1
  /\ IF rec_i < rec_n
     THEN pc' = "ud_rec_decrypt" /\ UNCHANGED result
     ELSE pc' = "ud_return" /\ result' = "Done"
  /\ UNCHANGED <<euid, env_vars, main_vars, data_vars, obs_vars, aux_vars, sel_vars, ret,
                 wait_secs,
                 poll_i, kp_pid, rec_n, rec_i, session_conn, outcomes, chk,
                 alert>>

\* what the decryption pipe may write: nothing, a password that fits, one
\* that fills the buffer, one that is longer
OutLens == {0, MAX_PASSWORD_SIZE - 1, MAX_PASSWORD_SIZE, MAX_PASSWORD_SIZE + 1}
\* exit status of the decryption command as pclose() would report it: 0, or
\* 1 for every failure (systemd-creds fails, or the shell cannot run it)
ExitStatuses == {0, 1}

\* fread(decrypted_passwd, 1, MAX_PASSWORD_SIZE, pipe)
fread(out_len, size) == IF out_len < size THEN out_len ELSE size

\* lines 313-316: the record is skipped after the decryption
skip_after_decrypt(bytes_read, status) == bytes_read = MAX_PASSWORD_SIZE

\* lines 271-317: the record's file is read and its password decrypted
unlock_databases_rec_decrypt ==
  /\ pc = "ud_rec_decrypt"
  /\ \E conf_ok, popen_ok \in BOOLEAN, status \in ExitStatuses, out \in OutLens :
       IF ~conf_ok \/ ~popen_ok
       THEN /\ pc' = "ud_rec_head"
            /\ rec_i' = after_failure(rec_i, rec_n)
            /\ op' = Op(IF conf_ok THEN "popen" ELSE "fopen", euid)
            /\ outcomes' = Logged(outcomes, IF conf_ok THEN "decryption failed"
                                                       ELSE "config unreadable")
            /\ UNCHANGED <<decrypted_len, dec_exit>>
       ELSE LET bytes_read == fread(out, MAX_PASSWORD_SIZE)
            IN /\ decrypted_len' = bytes_read
               /\ dec_exit' = status
               /\ op' = Op("decrypt", euid)
               /\ IF skip_after_decrypt(bytes_read, status)
                  THEN /\ pc' = "ud_rec_head"
                       /\ rec_i' = after_failure(rec_i, rec_n)
                       /\ outcomes' = Logged(outcomes, "oversized")
                  ELSE /\ pc' = "ud_rec_unlock"
                       /\ UNCHANGED <<rec_i, outcomes>>
  /\ UNCHANGED <<euid, env_vars, main_vars, data_vars, obs_vars, aux_vars, sel_vars, ret,
                 wait_secs,
                 poll_i, kp_pid, rec_n, session_conn, result, chk, alert>>

\* the processes that may own the KeePassXC bus name when openDatabase is
\* delivered: none, the one found by the discovery loop, or another one
Owners == {NoPid} \cup Pids \cup {4243}

\* lines 319-339: switch to the user, connect to the session bus and call
\* openDatabase with the decrypted password; the bus delivers the call to
\* the owner of the name at that moment, and the reply is only logged
unlock_databases_rec_unlock ==
  /\ pc = "ud_rec_unlock"
  /\ \E ok, conn_ok, accepted \in BOOLEAN, owner \in Owners :
       /\ owner = NoPid => ~accepted
       /\ ChangeEuid(user_id, ok, "ud_rec_restore")
       /\ IF pc' = "exited"
          THEN /\ op' = Op("exit", euid')
               /\ UNCHANGED <<session_conn, outcomes>>
          ELSE IF ~conn_ok
          THEN /\ op' = Op("g_bus_get_sync", euid')
               /\ session_conn' = "none"
               /\ outcomes' = Logged(outcomes, "bus unreachable")
          ELSE /\ op' = OpTo("openDatabase", euid', owner)
               /\ session_conn' = "open"
               /\ outcomes' = Logged(outcomes, IF accepted THEN "unlocked"
                                                           ELSE "rejected")
  /\ exit_code' = IF pc' = "exited" THEN 1 ELSE exit_code
  /\ UNCHANGED <<env_vars, user_id, select_i, session_subscription_id,
                 login_subscription_id, loop_running, quit_called, batch_left,
                 data_vars, obs_vars, aux_vars, sel_vars, ret, wait_secs, poll_i, kp_pid,
                 rec_n,
                 rec_i, decrypted_len, dec_exit, result, chk, alert>>

\* lines 340-341, 326-327: the connection is released, back to root, next
\* record
unlock_databases_rec_restore ==
  /\ pc = "ud_rec_restore"
  /\ session_conn' = "none"
  /\ \E ok \in BOOLEAN : ChangeEuid(ROOT, ok, "ud_rec_head")
  /\ op' = IF pc' = "exited" THEN Op("exit", euid') ELSE Op("seteuid", euid')
  /\ exit_code' = IF pc' = "exited" THEN 1 ELSE exit_code
  /\ rec_i' = IF pc' = "exited" THEN rec_i
              ELSE IF session_conn = "none" THEN after_failure(rec_i, rec_n)
              ELSE rec_i + 1
  /\ UNCHANGED <<env_vars, user_id, select_i, session_subscription_id,
                 login_subscription_id, loop_running, quit_called, batch_left,
                 data_vars, obs_vars, aux_vars, sel_vars, ret, wait_secs, poll_i, kp_pid,
                 rec_n,
                 decrypted_len, dec_exit, outcomes, result, chk, alert>>

\* ------------------------------------------------------------ environment

\* The GDBus worker thread queues every signal that matches a subscription
\* for the main context, whatever the main thread is doing.

\* logind emits PropertiesChanged for the monitored session
env_properties_changed ==
  /\ pc # "exited"
  /\ session_subscription_id # 0
  /\ Len(queue) < MaxQueue
  /\ queue' = Append(queue, "PropertiesChanged")
  /\ UNCHANGED <<pc, euid, op, LockedHint, main_vars, data_vars, ud_vars,
                 obs_vars, aux_vars, sel_vars>>

\* logind emits SessionRemoved for some session
env_session_removed ==
  /\ pc # "exited"
  /\ login_subscription_id # 0
  /\ Len(queue) < MaxQueue
  /\ queue' = Append(queue, "SessionRemoved")
  /\ UNCHANGED <<pc, euid, op, LockedHint, main_vars, data_vars, ud_vars,
                 obs_vars, aux_vars, sel_vars>>

\* logind removes the selected session and emits SessionRemoved for it: the
\* signal reaches the process only when line 478 has subscribed to it
env_remove_session ==
  /\ pc \notin {"main", "select", "exited"}
  /\ ~removed
  /\ removed' = TRUE
  /\ IF login_subscription_id # 0
     THEN /\ Len(queue) < MaxQueue
          /\ queue' = Append(queue, "SessionRemoved")
     ELSE UNCHANGED queue
  /\ UNCHANGED <<pc, euid, op, LockedHint, main_vars, data_vars, ud_vars,
                 obs_vars, sel_vars, event_calls, login_vars>>

\* the session is locked or unlocked
env_set_locked_hint ==
  /\ pc # "exited"
  /\ LockedHint' = ~LockedHint
  /\ UNCHANGED <<pc, euid, op, queue, main_vars, data_vars, ud_vars, obs_vars, aux_vars,
                 sel_vars>>

\* ---------------------------------------------------------- specification

Next ==
  \/ main_setup
  \/ main_select
  \/ main_subscribe_session
  \/ main_subscribe_login
  \/ main_loop_iterate
  \/ main_loop_dispatch
  \/ handle_session_event
  \/ unlock_databases_is_locked
  \/ unlock_databases_probe
  \/ unlock_databases_probe_restore
  \/ unlock_databases_sleep
  \/ unlock_databases_verify
  \/ unlock_databases_rec_head
  \/ unlock_databases_rec_decrypt
  \/ unlock_databases_rec_unlock
  \/ unlock_databases_rec_restore
  \/ unlock_databases_return
  \/ env_properties_changed
  \/ env_session_removed
  \/ env_set_locked_hint

Spec == Init /\ [][Next]_vars

\* the same program, watched by the observer of the scenario
SpecObserved == InitObserved /\ [][Next]_vars

\* the same program, with the calls made by each handler recorded
SpecEvents == InitEvents /\ [][Next]_vars

\* the program up to the return of the unlock at startup, before anything
\* is subscribed, with the outcomes of the records recorded
NextStartup ==
  \/ main_setup
  \/ main_select
  \/ unlock_databases_is_locked
  \/ unlock_databases_probe
  \/ unlock_databases_probe_restore
  \/ unlock_databases_sleep
  \/ unlock_databases_verify
  \/ unlock_databases_rec_head
  \/ unlock_databases_rec_decrypt
  \/ unlock_databases_rec_unlock
  \/ unlock_databases_rec_restore
  \/ unlock_databases_return
  \/ env_set_locked_hint

SpecRecords == InitRecords /\ [][NextStartup]_vars

\* the program while the only thing that happens outside is the removal of
\* the selected session; the program takes its next step whenever it has one
ProgramLive ==
  \/ main_setup
  \/ main_select
  \/ unlock_databases_is_locked
  \/ unlock_databases_probe
  \/ unlock_databases_probe_restore
  \/ unlock_databases_sleep
  \/ unlock_databases_verify
  \/ unlock_databases_rec_head
  \/ unlock_databases_rec_decrypt
  \/ unlock_databases_rec_unlock
  \/ unlock_databases_rec_restore
  \/ unlock_databases_return
  \/ main_subscribe_session
  \/ main_subscribe_login
  \/ main_loop_iterate
  \/ main_loop_dispatch

NextLive == ProgramLive \/ env_remove_session

SpecLive == Init /\ [][NextLive]_vars /\ WF_vars(ProgramLive)

\* ---------------------------------------------------------------------------
\* login-monitor.c
\* ---------------------------------------------------------------------------

unlock_vars == <<pc, euid, op, env_vars, main_vars, sel_vars, data_vars,
                 ud_vars, obs_vars, event_calls, removed>>

\* main(), lines 70-104: root only, no arguments, the system bus, the
\* SessionNew subscription; any of them failing returns 1
login_monitor_main ==
  /\ lm_pc = "main"
  /\ \E is_root \in BOOLEAN, no_args \in BOOLEAN, connection \in BOOLEAN,
        subscription_id \in {0, 1} :
       IF is_root /\ no_args /\ connection /\ subscription_id # 0
       THEN lm_pc' = "main_loop" /\ UNCHANGED lm_exit_code
       ELSE lm_pc' = "exited" /\ lm_exit_code' = 1
  /\ UNCHANGED <<new_sessions, notified, hns, session_env, requests, workers,
                 unlock_vars>>

\* logind announces a new session; the subscription of line 91 queues it
env_session_new ==
  /\ lm_pc = "main_loop"
  /\ notified < MaxNotified
  /\ \E path \in NewPaths : new_sessions' = Append(new_sessions, path)
  /\ notified' = notified + 1
  /\ UNCHANGED <<lm_pc, lm_exit_code, hns, session_env, requests, workers,
                 unlock_vars>>

\* handle_new_session, lines 17-47: the session path of the signal, the
\* validity and the owner, the owner's configs, fopen(session.env, "w")
handle_new_session ==
  /\ lm_pc = "main_loop"
  /\ hns.pc \in {"none", "returned"}
  /\ new_sessions # <<>>
  /\ new_sessions' = Tail(new_sessions)
  /\ \E valid \in BOOLEAN, has_configs \in BOOLEAN, session_env_fp \in BOOLEAN :
       LET session_path == Head(new_sessions)
           uid          == IF valid THEN SessionOwner[session_path] ELSE ROOT
           call         == [NoCall EXCEPT !.session_path = session_path,
                                          !.user_id = uid,
                                          !.valid = valid]
       IN  IF ~valid
           THEN /\ hns' = [call EXCEPT !.pc = "returned"]
                /\ UNCHANGED session_env
           ELSE IF ~has_configs
           THEN /\ hns' = [call EXCEPT !.pc = "returned"]
                /\ UNCHANGED session_env
           ELSE IF ~session_env_fp
           THEN /\ hns' = [call EXCEPT !.pc = "returned", !.has_configs = TRUE]
                /\ UNCHANGED session_env
           ELSE /\ hns' = [call EXCEPT !.pc = "write", !.has_configs = TRUE,
                                       !.opened = TRUE]
                /\ session_env' = [session_env EXCEPT ![uid] = EmptyFile]
  /\ UNCHANGED <<lm_pc, lm_exit_code, notified, requests, workers, unlock_vars>>

\* lines 51-52: fprintf and fclose, whose results are not looked at; a write
\* that fails leaves the file as fopen truncated it
handle_new_session_write ==
  /\ hns.pc = "write"
  /\ \E written \in BOOLEAN :
       session_env' = [session_env EXCEPT ![hns.user_id] =
                         IF written THEN hns.session_path ELSE EmptyFile]
  /\ hns' = [hns EXCEPT !.pc = "start"]
  /\ UNCHANGED <<lm_pc, lm_exit_code, new_sessions, notified, requests,
                 workers, unlock_vars>>

\* lines 55-65: system("systemctl start keepassxc-unlock@<uid>.service"); a
\* failure is logged only.  Starting an instance that is started is a no-op.
handle_new_session_start ==
  /\ hns.pc = "start"
  /\ requests' = Append(requests, [unit |-> hns.user_id,
                                   env  |-> session_env[hns.user_id]])
  /\ \E status \in {0, 1} :
       workers' = IF status = 0 THEN workers \cup {hns.user_id} ELSE workers
  /\ hns' = [hns EXCEPT !.pc = "returned", !.requested = TRUE]
  /\ UNCHANGED <<lm_pc, lm_exit_code, new_sessions, notified, session_env,
                 unlock_vars>>

NextLogin ==
  \/ login_monitor_main
  \/ env_session_new
  \/ handle_new_session
  \/ handle_new_session_write
  \/ handle_new_session_start

SpecLogin == Init /\ [][NextLogin]_vars

\* select_session() on every reply
NextSelect == select_session_call

SpecSelect == InitSelect /\ [][NextSelect]_vars

\* ------------------------------------------------------------------ claims

\* a step of the handler on the entry at the head of `entries`
EntryStep(key) ==
  /\ pc = "handle_session_event"
  /\ entries # <<>>
  /\ Head(entries).key = key
  /\ pc' # pc \/ entries' # entries

\* unlock_databases() is entered by this step, from `caller` with `secs`
Invoked(caller, secs) ==
  pc' = "ud_entry" /\ ret' = caller /\ wait_secs' = secs

\* unlock_databases() returns to the handler, which moves to the next entry
ReturnsOnce(caller) ==
  (pc = "ud_return" /\ ret = caller /\ pc' # pc)
    => (pc' = "handle_session_event" /\ entries' = Tail(entries))

\* C1: a LockedHint entry invokes unlock_databases exactly once, with the
\* 10 s budget, when it carries false and the recorded lock-hint is true, and
\* not at all otherwise; the sequence false, true, false after monitoring
\* started yields exactly one invocation, on the final false.
C1_LockHintInvokesOnce ==
  /\ [][EntryStep("LockedHint") =>
          IF ~Head(entries).value /\ session_locked
          THEN Invoked("LockedHint", UnlockEventWait)
          ELSE pc' = pc]_vars
  /\ [][ReturnsOnce("LockedHint")]_vars
  /\ [](scenStep \in {1, 2} => scenCalls = 0)
  /\ [](scenStep = Len(Scenario) => scenCalls = 1)

C1_Witness ==
  /\ scenStep = Len(Scenario)
  /\ scenCalls = 1
  /\ pc = "ud_entry"
  /\ ret = "LockedHint"
  /\ wait_secs = UnlockEventWait

\* C2: an Active entry invokes unlock_databases exactly once, with the 30 s
\* budget, when it carries true while the recorded active flag and the
\* recorded lock-hint are false, and not at all otherwise.
C2_ActiveInvokesOnce ==
  /\ [][EntryStep("Active") =>
          IF Head(entries).value /\ ~session_active /\ ~session_locked
          THEN Invoked("Active", ActiveEventWait)
          ELSE pc' = pc]_vars
  /\ [][ReturnsOnce("Active")]_vars

C2_Witness ==
  /\ pc = "ud_entry"
  /\ ret = "Active"
  /\ wait_secs = ActiveEventWait
  /\ ~session_active
  /\ ~session_locked

\* the integrity check of this invocation was given a readable baseline, an
\* executable it could hash, and equal digests
Match == chk = [baseline |-> "present", hashed |-> TRUE, equal |-> TRUE]

IntegrityAbort == pc = "ud_return" /\ result = "IntegrityFailure"

C5_RootAfterEachScope ==
  pc \in {"ud_return", "ud_rec_head", "ud_rec_decrypt", "ud_sleep",
          "subscribe_session", "subscribe_login", "main_loop", "dispatch",
          "handle_session_event"}
    => euid = ROOT

C5_Witness ==
  /\ pc = "ud_return"
  /\ result = "Done"
  /\ rec_i = rec_n
  /\ rec_n > 0
  /\ op = Op("memset", ROOT)
  /\ euid = ROOT

\* C6: a failed switch back to root ends the process at once with status 1,
\* and nothing happens afterwards.
C6_FailedRestoreIsFatal ==
  /\ [][(pc \in {"ud_poll_restore", "ud_rec_restore"} /\ pc' # pc
           /\ euid # ROOT /\ euid' # ROOT)
          => (pc' = "exited" /\ exit_code' = 1)]_vars
  /\ [][pc = "exited" => UNCHANGED vars]_vars
  /\ [](euid # ROOT =>
          pc \in {"main", "ud_poll_restore", "ud_rec_restore", "exited"})

C6_Witness ==
  /\ pc = "exited"
  /\ exit_code = 1
  /\ op = Op("exit", user_id)
  /\ euid # ROOT

\* C7 as claimed: every operation on the user's session bus runs under the
\* user's identity.
C7_Original ==
  op.name \in {"GetConnectionUnixProcessID", "g_bus_get_sync", "openDatabase"}
    => op.euid = user_id /\ op.euid # ROOT

\* C8 as claimed: once SessionRemoved for the monitored session is handled
\* the loop is stopped and unlock_databases is not entered again.
C8_Original ==
  /\ [](quit_called => ~loop_running)
  /\ [][quit_called => ~(pc' = "ud_entry" /\ pc # "ud_entry")]_vars

\* the first step of unlock_databases found the session locked or could not
\* read LockedHint
GuardStep ==
  /\ pc = "ud_entry"
  /\ pc' # pc
  /\ LockedHint \/ op'.name = "Get LockedHint failed"

\* C9: every invocation starts by reading LockedHint; when it is true or
\* cannot be read the invocation returns at once: no identity switch, no
\* probe, no integrity check, no decryption, no unlock, no alert.
C9_LockedGuard ==
  /\ [][(pc = "ud_entry" /\ pc' # pc)
          => op'.name \in {"Get LockedHint", "Get LockedHint failed"}]_vars
  /\ [][GuardStep =>
          /\ pc' = "ud_return"
          /\ result' = "Locked"
          /\ UNCHANGED <<euid, kp_pid, chk, alert, decrypted_len, dec_exit>>]_vars
  /\ [](result = "Locked" =>
          /\ pc = "ud_return"
          /\ euid = ROOT
          /\ kp_pid = NoPid
          /\ chk = NoChk
          /\ alert = NoAlert
          /\ dec_exit = -1)

C9_Witness ==
  /\ pc = "ud_return"
  /\ result = "Locked"
  /\ ret = "LockedHint"
  /\ op.name = "Get LockedHint failed"

\* C10 as claimed: openDatabase is not called for a record whose decryption
\* failed or whose decrypted password fills the buffer.
C10_Original ==
  op.name \in {"g_bus_get_sync", "openDatabase"}
    => dec_exit = 0 /\ decrypted_len < MAX_PASSWORD_SIZE

\* C11: after the integrity check has passed, the records are attempted one
\* after another in the order of glob(): whatever the outcome of a record,
\* the next one is attempted, and the invocation returns only when every
\* record has had its outcome.
C11_EveryRecordAttempted ==
  /\ [](pc \in {"ud_rec_head", "ud_rec_decrypt", "ud_rec_unlock"}
          => Len(outcomes) = rec_i /\ rec_i <= rec_n)
  /\ [](pc = "ud_rec_restore" => Len(outcomes) = rec_i + 1 /\ rec_i < rec_n)
  /\ [][(pc = "ud_rec_head" /\ rec_i < rec_n /\ pc' # pc)
          => (pc' = "ud_rec_decrypt" /\ rec_i' = rec_i)]_vars
  /\ [][(Len(outcomes') = Len(outcomes) + 1 /\ pc' # "exited")
          => /\ outcomes' = Append(outcomes, outcomes'[Len(outcomes')])
             /\ outcomes'[Len(outcomes')] \in Outcomes
             /\ pc' \in {"ud_rec_head", "ud_rec_restore"}
             /\ rec_n' = rec_n]_vars
  /\ []((pc = "ud_return" /\ Match)
          => (result = "Done" /\ Len(outcomes) = rec_n))

C11_Witness ==
  /\ pc = "ud_return"
  /\ rec_n = 3
  /\ outcomes = <<"unlocked", "decryption failed", "unlocked">>

\* C12: decrypted_passwd holds no plaintext when a record's decryption
\* starts, when the invocation returns and outside invocations; the step
\* that follows the end of a record clears it; the record's session bus
\* connection is released before the loop goes on to the next record.
C12_BufferCleared ==
  /\ [](pc \notin {"ud_rec_head", "ud_rec_unlock", "ud_rec_restore", "exited"}
          => decrypted_len = 0)
  /\ [][(pc = "ud_rec_head" /\ pc' # pc) => decrypted_len' = 0]_vars
  /\ [][(pc \in {"ud_rec_decrypt", "ud_rec_restore"} /\ pc' \notin {pc, "exited"}
           /\ rec_i' # rec_i) => pc' = "ud_rec_head"]_vars
  /\ [](session_conn = "open" => pc = "ud_rec_restore")
  /\ [](pc = "ud_rec_restore" =>
          (session_conn = "open" <=> op.name = "openDatabase"))

C12_Witness ==
  /\ pc = "ud_return"
  /\ outcomes = <<"rejected", "oversized", "bus unreachable">>
  /\ decrypted_len = 0
  /\ session_conn = "none"

\* an upper bound on the steps the running invocation has still to take
Remaining ==
  LET verify == 4 * MaxRecords + 3
      poll   == 3 * (wait_secs - poll_i) + verify
      rec    == 4 * (rec_n - rec_i)
  IN CASE pc = "ud_entry"        -> 3 * wait_secs + verify + 1
       [] pc = "ud_poll"         -> poll
       [] pc = "ud_poll_restore" -> poll - 1
       [] pc = "ud_sleep"        -> poll - 2
       [] pc = "ud_verify"       -> verify
       [] pc = "ud_rec_head"     -> rec + 1
       [] pc = "ud_rec_decrypt"  -> rec
       [] pc = "ud_rec_unlock"   -> rec - 1
       [] pc = "ud_rec_restore"  -> rec - 2
       [] OTHER                  -> 0

\* C13: the discovery loop makes at most wait_secs probes and stops at the
\* first that yields a process id; when all of them fail the invocation
\* returns as ServiceUnavailable without integrity check, decryption or
\* unlock; every step of an invocation lowers a bound on the steps left.
C13_BoundedDiscovery ==
  /\ [](pc \in {"ud_poll", "ud_poll_restore", "ud_sleep"}
          => poll_i + 1 <= wait_secs)
  /\ [][(pc = "ud_poll_restore" /\ kp_pid # NoPid /\ pc' \notin {pc, "exited"})
          => pc' = "ud_verify"]_vars
  /\ [][(pc' = "ud_poll" /\ pc # "ud_poll")
          => \/ pc = "ud_entry" /\ poll_i' = 0
             \/ pc = "ud_sleep" /\ kp_pid = NoPid /\ poll_i' = poll_i + 1]_vars
  /\ [][(result' = "ServiceUnavailable" /\ result # "ServiceUnavailable")
          => (pc = "ud_sleep" /\ kp_pid = NoPid /\ poll_i + 1 = wait_secs)]_vars
  /\ [](result = "ServiceUnavailable"
          => /\ pc = "ud_return"
             /\ chk = NoChk
             /\ alert = NoAlert
             /\ rec_n = 0
             /\ dec_exit = -1
             /\ session_conn = "none")
  /\ [](Remaining >= 0 /\ Remaining <= 3 * StartupWait + 4 * MaxRecords + 4)
  /\ [][(Remaining > 0 /\ pc' # pc) => Remaining' < Remaining]_vars

C13_Witness ==
  /\ pc = "ud_return"
  /\ result = "ServiceUnavailable"
  /\ ret = "Active"
  /\ op.name = "sleep"

\* the sessions of the reply that belong to the user and are of a local
\* graphical type, not remote and active
Qualifying ==
  {i \in 1..Len(sessions.list) :
     /\ sessions.list[i].uid = user_id
     /\ sessions.list[i].type \in {"x11", "wayland"}
     /\ ~sessions.list[i].remote
     /\ sessions.list[i].active}

\* C14: select_session returns the first session of the reply that belongs
\* to the user and is of a local graphical type, not remote and active; it
\* returns none when no session qualifies or when ListSessions fails.
C14_FirstEligibleSession ==
  session_selected # NotCalled =>
    IF ~sessions.ok \/ Qualifying = {}
    THEN session_selected = NoSession
    ELSE \E i \in Qualifying :
           /\ \A j \in Qualifying : i <= j
           /\ session_selected = sessions.list[i].path

C14_Witness ==
  /\ sessions.ok
  /\ Len(sessions.list) = 2
  /\ sessions.list[1].uid = user_id
  /\ ~sessions.list[1].active
  /\ Qualifying = {2}
  /\ session_selected = OtherPath

\* C15 as claimed: when the subscriptions are created the recorded lock-hint
\* is the session's LockedHint at that moment.
C15_Original ==
  [][(pc = "subscribe_session" /\ pc' = "subscribe_login")
       => session_locked' = LockedHint']_vars

\* C16 as claimed: the process exits with 1 when every ListSessions call
\* failed or a subscription could not be made, with 0 when no session
\* qualified or the monitored session was removed.
C16_Original ==
  /\ [][(pc = "select" /\ pc' = "exited")
          => exit_code' = (IF listed' THEN 0 ELSE 1)]_vars
  /\ [][(pc \in {"subscribe_session", "subscribe_login"} /\ pc' = "exited")
          => exit_code' = 1]_vars
  /\ [][(pc = "main_loop" /\ pc' = "exited")
          => (exit_code' = 0 /\ quit_called)]_vars

\* unlock_databases is running
InProgress == ret # "none"

\* C17: select_session is tried at most 30 times; when it yields a session
\* unlock_databases is called once from main, with the 60 s budget, before
\* anything is subscribed or dispatched; when every try fails the process
\* ends without a call and without a subscription.
C17_StartupOnce ==
  /\ [](pc = "select" => select_i + 1 <= SelectAttempts)
  /\ [](startup_calls <= 1)
  /\ [][(pc' = "ud_entry" /\ pc # "ud_entry" /\ ret' = "startup")
          => (pc = "select" /\ wait_secs' = StartupWait
                /\ startup_calls = 0 /\ startup_calls' = 1)]_vars
  /\ []((startup_calls = 0 \/ ret = "startup")
          => /\ session_subscription_id = 0
             /\ login_subscription_id = 0
             /\ queue = <<>>
             /\ entries = <<>>)
  /\ [](session_subscription_id # 0 => (startup_calls = 1 /\ ret # "startup"))
  /\ [][(pc = "select" /\ pc' = "exited")
          => (select_i + 1 = SelectAttempts /\ startup_calls' = 0
                /\ exit_code' = 0)]_vars

C17_Witness ==
  /\ pc = "subscribe_session"
  /\ startup_calls = 1
  /\ session_subscription_id = 0
  /\ queue = <<>>

\* C18: signals are handled one at a time in the order of arrival, each
\* handler, with the unlock_databases calls it makes, running to its end
\* before the next signal is taken; unlock_databases is never entered while
\* it is running, and a signal that arrives meanwhile only joins the queue.
C18_OneAtATime ==
  /\ [][(pc' = "ud_entry" /\ pc # "ud_entry")
          => (~InProgress /\ pc \in {"select", "handle_session_event"})]_vars
  /\ [](InProgress <=>
          pc \in {"ud_entry", "ud_poll", "ud_poll_restore", "ud_sleep",
                  "ud_verify", "ud_rec_head", "ud_rec_decrypt", "ud_rec_unlock",
                  "ud_rec_restore", "ud_return"}
            \/ (pc = "exited" /\ ret # "none"))
  /\ [][(queue' # queue /\ batch_left' = batch_left)
          => \E sig \in {"PropertiesChanged", "SessionRemoved"} :
               queue' = Append(queue, sig)]_vars
  /\ [][(queue' # queue /\ batch_left' # batch_left)
          => /\ pc = "dispatch"
             /\ batch_left' = batch_left - 1
             /\ queue' = Tail(queue)
             /\ IF Head(queue) = "PropertiesChanged"
                THEN pc' = "handle_session_event"
                ELSE pc' = pc]_vars
  /\ [](pc = "dispatch" => (entries = <<>> /\ ~InProgress))
  /\ [][(pc = "handle_session_event" /\ pc' = "dispatch") => entries = <<>>]_vars

C18_Witness ==
  /\ pc = "ud_verify"
  /\ ret = "LockedHint"
  /\ queue = <<"PropertiesChanged", "SessionRemoved">>

\* C19 as claimed: openDatabase is delivered only to the process whose
\* executable the integrity check of this invocation has verified.
C19_Original ==
  (op.name = "openDatabase" /\ op.to # NoPid) => (Match /\ op.to = kp_pid)

\* C20 as claimed: openDatabase is not called while LockedHint is true.
C20_Original ==
  [][(pc = "ud_rec_unlock" /\ op'.name = "openDatabase") => ~LockedHint]_vars

\* C21 as claimed: the handler of one PropertiesChanged signal calls
\* unlock_databases at most once.
C21_Original == event_calls # NoLog => Len(event_calls) <= 1

\* the handling of the entry at the head of `entries` ends with this step
EntryDone(key) ==
  /\ entries # <<>>
  /\ Head(entries).key = key
  /\ entries' = Tail(entries)

\* C22: when the handling of an entry ends, with or without a call of
\* unlock_databases and however the call ended, a LockedHint entry has set
\* the recorded lock-hint to its value and left the recorded active flag,
\* an Active entry the converse, any other entry has changed neither and
\* called nothing; SessionRemoved changes neither and calls nothing; the
\* recorded fields change at no other step once monitoring has started.
C22_RecordedState ==
  /\ [][EntryDone("LockedHint")
          => /\ session_locked' = Head(entries).value
             /\ session_active' = session_active]_vars
  /\ [][EntryDone("Active")
          => /\ session_active' = Head(entries).value
             /\ session_locked' = session_locked]_vars
  /\ [][EntryDone("IdleHint")
          => /\ UNCHANGED <<session_locked, session_active>>
             /\ pc = "handle_session_event"
             /\ pc' = pc]_vars
  /\ [][(pc = "dispatch" /\ queue' # queue /\ batch_left' # batch_left
            /\ Head(queue) = "SessionRemoved")
          => /\ UNCHANGED <<session_locked, session_active, entries>>
             /\ pc' = pc]_vars
  /\ [][(<<session_locked, session_active>>' # <<session_locked, session_active>>)
          => \/ pc = "subscribe_session"
             \/ EntryDone("LockedHint")
             \/ EntryDone("Active")]_vars
  /\ [][entries' # entries
          => \/ pc = "dispatch" /\ entries = <<>>
             \/ entries' = Tail(entries)
                  /\ pc \in {"handle_session_event", "ud_return"}]_vars

C22_Witness ==
  /\ pc = "handle_session_event"
  /\ event_calls = <<"Active">>
  /\ session_active
  /\ ~session_locked
  /\ entries = <<[key |-> "LockedHint", value |-> TRUE]>>

\* C23 as claimed: once the selected session has been removed the process
\* eventually ends.
C23_Original == removed ~> (pc = "exited")

\* C24 as claimed: when handle_new_session has returned, the start of the
\* owner's worker was requested exactly when the session is valid, its owner
\* has configs and session.env holds the session's path; every request names
\* the instance of the owner and found the file opened before it, and there
\* is at most the one instance per user.
C24_Original ==
  /\ hns.pc = "returned" =>
       (hns.requested <=> /\ hns.valid
                          /\ hns.has_configs
                          /\ session_env[hns.user_id] = hns.session_path)
  /\ \A i \in 1..Len(requests) :
       requests[i].unit \in LoginUsers /\ requests[i].env # NoFile
  /\ workers \subseteq {requests[i].unit : i \in 1..Len(requests)}

====
